---- MODULE Spec2Model ----
(***************************************************************************)
(* A model of the VTOP API server (src/app.js): the login orchestrator     *)
(* (attemptLogin / fetchWithSession), the per-user session registry        *)
(* (userSessions, getUserClient, the periodic sweep) and the two request   *)
(* handlers (/initialdata, /semesterdata).                                 *)
(*                                                                         *)
(* The specifications of the module:                                       *)
(*   SpecLogin - one run of attemptLogin against an arbitrary remote,      *)
(*               step by step (every await is a step);                     *)
(*   SpecLoginFair - SpecLogin in which a pending step is taken at last;   *)
(*   Spec      - the server: concurrent request handlers, the registry,    *)
(*               the clock and the sweep; an awaited attemptLogin resolves *)
(*               to any of the values attemptLogin can return;             *)
(*   SpecTracked - Spec with the history of lastUsed refreshes recorded;   *)
(*   SpecSolver - the CAPTCHA solver (src/captchasolver.js): concurrent    *)
(*               calls of solveCaptchaFromBase64 around the shared         *)
(*               temporary file, solveCaptchaFromFile, captcha_parse.      *)
(***************************************************************************)
EXTENDS Integers, Sequences, FiniteSets, TLC

VARIABLES
    \* ---- one run of attemptLogin (SpecLogin) ----
    lclient,        \* the client argument of attemptLogin (Null or a client)
    lpc,            \* where the run is suspended: init, get, solve, delay, post, done
    attempt,        \* attemptLogin's `attempt`
    fetchAttempt,   \* fetchWithSession's `attempt`
    pending,        \* csrfToken / captchaImage held while the solver runs
    challenge,      \* the value fetchWithSession returned: {csrf, captchaSolution}
    gets,           \* transport counter: login-page GETs issued
    posts,          \* transport counter: login POSTs issued
    getsSeen,       \* what the login-page GETs answered so far (summary), and
                    \* whether the solver returned no guess for the latest
    postLog,        \* the answers of the login POSTs, in order
    lresult,        \* the value attemptLogin returned
    \* ---- the server (Spec) ----
    now,            \* Date.now(), in ms since the initial state
    nextSweep,      \* when the setInterval callback is due next
    userSessions,   \* the Map userSessions: username -> reference to a session object
    objs,           \* the session objects alive: reference -> {client, lastUsed[, studentId, csrf]}
    handler,        \* the request handlers: their position and local variables
    sent,           \* the response sent by the step just taken (Pending: none)
    tracking,       \* whether lastRefresh is recorded (it is in SpecTracked)
    lastRefresh,    \* history: per username, the time of the latest refresh of lastUsed
    \* ---- the CAPTCHA solver, src/captchasolver.js (SpecSolver) ----
    tempFile,       \* the content of ./temp_captcha.jpg (NoFile: no such file)
    call,           \* the calls of solveCaptchaFromBase64 / solveCaptchaFromFile:
                    \* position, argument, locals, result
    parse           \* a run of captcha_parse: its loop variable j and `captcha`

loginVars == <<lclient, lpc, attempt, fetchAttempt, pending, challenge,
               gets, posts, getsSeen, postLog, lresult>>
serverVars == <<now, nextSweep, userSessions, objs, handler, sent, tracking, lastRefresh>>
solverVars == <<tempFile, call, parse>>
vars == <<loginVars, serverVars, solverVars>>

-----------------------------------------------------------------------------
(* Values *)

\* null / undefined where a string is expected
Null == "null"
\* an exception where a string is expected
Throw == "throw"
\* no client (a falsy `client` argument) and the client owning cookie jar j
NullClient == [null |-> TRUE]
Client(j) == [jar |-> j]
\* no value yet
Pending == [pending |-> TRUE]

\* maxAttempts of attemptLogin
loginMaxAttempts == 5
\* maxAttempts of fetchWithSession
fetchMaxAttempts == 10

\* Login pages the remote may answer with.  A page is what the selectors and
\* regular expressions of detectCaptchaType / extractCaptchaImage /
\* fetchWithSession read from it.
Page(block, vtopImg, formImg, typeVar, dataUri, csrfInput, csrfMeta) ==
    [captchaBlock |-> block, vtopImg |-> vtopImg, formImg |-> formImg,
     typeVar |-> typeVar, dataUri |-> dataUri,
     csrfInput |-> csrfInput, csrfMeta |-> csrfMeta]

Pages ==
    { Page(FALSE, FALSE, FALSE, FALSE, FALSE, TRUE,  FALSE),  \* no captcha at all
      Page(TRUE,  FALSE, FALSE, FALSE, FALSE, TRUE,  FALSE),  \* block, no image
      Page(FALSE, TRUE,  FALSE, FALSE, FALSE, FALSE, FALSE),  \* image, no token
      Page(TRUE,  TRUE,  FALSE, FALSE, FALSE, TRUE,  FALSE),  \* the usual page
      Page(FALSE, FALSE, TRUE,  FALSE, FALSE, FALSE, TRUE),   \* form image, meta token
      Page(FALSE, FALSE, FALSE, TRUE,  TRUE,  TRUE,  FALSE),  \* script flag, data URI
      Page(FALSE, FALSE, FALSE, FALSE, TRUE,  FALSE, TRUE) }  \* data URI fallback

\* Bodies a login POST may be answered with.  `str` says whether the body is a
\* string (axios hands non-string data through, e.g. a parsed JSON null or
\* object); `empty` an empty string or a falsy value; the other fields say
\* which substrings the body contains.
Body(str, empty, cred, captcha, sid, tok) ==
    [str |-> str, empty |-> empty, cred |-> cred, captcha |-> captcha,
     sid |-> sid, tok |-> tok]

CredBody    == Body(TRUE,  FALSE, TRUE,  FALSE, FALSE, FALSE)
BothBody    == Body(TRUE,  FALSE, TRUE,  TRUE,  FALSE, FALSE)
CaptchaBody == Body(TRUE,  FALSE, FALSE, TRUE,  FALSE, FALSE)
HomeBody    == Body(TRUE,  FALSE, FALSE, FALSE, TRUE,  TRUE)
NoIdBody    == Body(TRUE,  FALSE, FALSE, FALSE, FALSE, TRUE)
NoTokBody   == Body(TRUE,  FALSE, FALSE, FALSE, TRUE,  FALSE)
EmptyBody   == Body(TRUE,  TRUE,  FALSE, FALSE, FALSE, FALSE)
NullBody    == Body(FALSE, TRUE,  FALSE, FALSE, FALSE, FALSE)
ObjectBody  == Body(FALSE, FALSE, FALSE, FALSE, FALSE, FALSE)

Bodies == { CredBody, BothBody, CaptchaBody, HomeBody, NoIdBody, NoTokBody,
            EmptyBody, NullBody, ObjectBody }

\* Guesses the solver may return (6 characters of its alphabet).
Solutions == { "AB2C3D" }

\* The values attemptLogin returns.
NoClient    == [success |-> FALSE, message |-> "No client provided"]
InvalidCred == [success |-> FALSE, message |-> "Invalid credentials"]
Exhausted   == [success |-> FALSE, message |-> "Maximum login attempts reached"]
Success(data) == [success |-> TRUE, data |-> data]

-----------------------------------------------------------------------------
(* Pure functions of src/app.js *)

detectCaptchaType(page) ==
    IF page.captchaBlock \/ page.vtopImg \/ page.formImg THEN "inbuilt"
    ELSE IF page.typeVar THEN "inbuilt"
    ELSE IF page.dataUri THEN "inbuilt"
    ELSE "unknown"

\* The image source, or Null.
extractCaptchaImage(page) ==
    IF page.vtopImg THEN "vtopCaptcha"
    ELSE IF page.formImg THEN "formControl"
    ELSE IF page.dataUri THEN "dataUri"
    ELSE Null

\* $('input[name="_csrf"]').val() || $('meta[name="_csrf"]').attr("content")
extractCsrfToken(page) ==
    IF page.csrfInput THEN "input" ELSE IF page.csrfMeta THEN "meta" ELSE Null

\* Mutant: the captcha marker is looked for first.
checkResponseForErrorsCaptchaFirst(html) ==
    IF html.empty THEN Null
    ELSE IF ~html.str THEN Throw
    ELSE IF html.captcha THEN "captcha"
    ELSE IF html.cred THEN "credentials"
    ELSE Null

\* Mutant: an empty or absent body counts as a wrong CAPTCHA guess.
checkResponseForErrorsEmptyRetry(html) ==
    IF html.empty THEN "captcha"
    ELSE IF ~html.str THEN Throw
    ELSE IF html.cred THEN "credentials"
    ELSE IF html.captcha THEN "captcha"
    ELSE Null

\* "credentials", "captcha" or Null; Throw stands for the TypeError of
\* html.includes on a truthy value that is no string.
checkResponseForErrors(html) ==
    IF html.empty THEN Null
    ELSE IF ~html.str THEN Throw
    ELSE IF html.cred THEN "credentials"
    ELSE IF html.captcha THEN "captcha"
    ELSE Null

-----------------------------------------------------------------------------
(* attemptLogin and fetchWithSession, one step per await *)

\* The remote's answer to a login-page GET: a page, or a transport failure.
GetAnswers == Pages \cup { [failed |-> TRUE] }
\* The remote's answer to a login POST: a body, or a transport failure.
PostAnswers == Bodies \cup { [failed |-> TRUE] }
IsFailure(answer) == "failed" \in DOMAIN answer

\* Mutants: the loop bounds off by one.
LoginLoopGuardInclusive(a) == a <= loginMaxAttempts
FetchLoopGuardExclusive(f) == f < fetchMaxAttempts

\* while (attempt < maxAttempts)
LoginLoopGuard(a) == a < loginMaxAttempts
\* for (...; attempt <= maxAttempts; ...)
FetchLoopGuard(f) == f <= fetchMaxAttempts

\* Mutant: an "Invalid Captcha" answer ends the run like a wrong password.
CaptchaVerdictGivesUp(a) ==
    /\ lpc' = "done"
    /\ lresult' = InvalidCred
    /\ UNCHANGED <<attempt, fetchAttempt, gets>>

\* Mutant: the while loop has no bound.
LoopTopUnbounded(a) ==
    /\ attempt' = a + 1
    /\ fetchAttempt' = 1
    /\ gets' = gets + 1
    /\ lpc' = "get"
    /\ lresult' = lresult

\* The top of attemptLogin's while loop, reached with attempt = a: either the
\* next cycle starts (fetchWithSession is called and issues its first GET) or
\* the loop ends and attemptLogin returns.
LoopTop(a) ==
    IF LoginLoopGuard(a)
    THEN /\ attempt' = a + 1
         /\ fetchAttempt' = 1
         /\ gets' = gets + 1
         /\ lpc' = "get"
         /\ lresult' = lresult
    ELSE /\ attempt' = a
         /\ fetchAttempt' = fetchAttempt
         /\ gets' = gets
         /\ lpc' = "done"
         /\ lresult' = Exhausted

\* Mutant: after an "Invalid Captcha" answer the same challenge is submitted
\* again.
CaptchaVerdictResubmits(a) ==
    IF LoginLoopGuard(a)
    THEN /\ attempt' = a + 1
         /\ lpc' = "post"
         /\ UNCHANGED <<fetchAttempt, gets, lresult>>
    ELSE LoopTop(a)

\* errorType === "captcha": continue
CaptchaVerdict(a) == LoopTop(a)

\* A promise of attemptLogin that rejects (no code path produces it).
Rejected == [rejected |-> TRUE]

\* Mutant: a failed POST ends the run.
PostThrowsGivesUp ==
    /\ lpc' = "done"
    /\ lresult' = Exhausted
    /\ UNCHANGED <<attempt, fetchAttempt, gets>>

\* Mutant: the exception of a failed POST leaves attemptLogin.
PostThrowsRejects ==
    /\ lpc' = "done"
    /\ lresult' = Rejected
    /\ UNCHANGED <<attempt, fetchAttempt, gets>>

\* attemptLogin: client.post or checkResponseForErrors throws; catch (error)
\* logs the error and the while loop goes on.
PostThrows == LoopTop(attempt)

\* Mutant: a failed GET is followed by the delay and the next attempt.
GetThrowsRetries ==
    /\ lpc' = "delay"
    /\ UNCHANGED <<attempt, fetchAttempt, gets, lresult>>

\* fetchWithSession: client.get throws; the catch around the for loop is
\* entered, fetchWithSession returns null and attemptLogin continues.
GetThrows == LoopTop(attempt)

\* attemptLogin(username, password, client) is called.
LoginCall ==
    /\ UNCHANGED <<serverVars, solverVars>>
    /\ lpc = "init"
    /\ IF lclient = NullClient
       THEN /\ lpc' = "done"
            /\ lresult' = NoClient
            /\ UNCHANGED <<attempt, fetchAttempt, gets>>
       ELSE LoopTop(0)
    /\ UNCHANGED <<lclient, pending, challenge, posts, getsSeen, postLog>>

\* fetchWithSession: `await client.get(url)` settles.
GetResponds(answer) ==
    /\ UNCHANGED <<serverVars, solverVars>>
    /\ lpc = "get"
    /\ IF IsFailure(answer)
       THEN /\ GetThrows
            /\ pending' = Pending
            /\ getsSeen' = [noCaptcha |-> FALSE, solved |-> FALSE, nullGuess |-> FALSE]
       ELSE LET captchaType == detectCaptchaType(answer)
                csrfToken == extractCsrfToken(answer)
                captchaImage == extractCaptchaImage(answer)
            IN  IF captchaType = "inbuilt" /\ captchaImage # Null /\ csrfToken # Null
                THEN /\ lpc' = "solve"
                     /\ pending' = [csrf |-> csrfToken, image |-> captchaImage,
                                     page |-> gets]
                     /\ getsSeen' = [getsSeen EXCEPT !.noCaptcha = FALSE,
                                                      !.nullGuess = FALSE]
                     /\ UNCHANGED <<attempt, fetchAttempt, gets, lresult>>
                ELSE /\ lpc' = "delay"
                     /\ pending' = Pending
                     /\ getsSeen' = [noCaptcha |-> getsSeen.noCaptcha
                                                    /\ captchaType = "unknown",
                                      solved |-> FALSE, nullGuess |-> FALSE]
                     /\ UNCHANGED <<attempt, fetchAttempt, gets, lresult>>
    /\ UNCHANGED <<lclient, challenge, posts, postLog>>

\* A falsy string: null / undefined or the empty string.
Falsy(v) == v \in { Null, "" }

\* Mutant: whatever the solver returned is taken for a guess.
GuessUsableAlways(captchaSolution) == TRUE

\* if (captchaSolution)
GuessUsable(captchaSolution) == ~Falsy(captchaSolution)

\* fetchWithSession: `await solveCaptchaFromBase64(captchaImage)` settles with
\* a guess, with null or (as far as fetchWithSession can tell) with an empty
\* string.  With a guess fetchWithSession returns and attemptLogin issues the
\* login POST.
SolveReturns(captchaSolution) ==
    /\ UNCHANGED <<serverVars, solverVars>>
    /\ lpc = "solve"
    /\ IF GuessUsable(captchaSolution)
       THEN /\ challenge' = [csrf |-> pending.csrf, captchaSolution |-> captchaSolution,
                              page |-> pending.page]
            /\ posts' = posts + 1
            /\ lpc' = "post"
            /\ UNCHANGED getsSeen
       ELSE /\ lpc' = "delay"
            /\ getsSeen' = [getsSeen EXCEPT !.solved = FALSE, !.nullGuess = TRUE]
            /\ UNCHANGED <<challenge, posts>>
    /\ pending' = Pending
    /\ UNCHANGED <<lclient, attempt, fetchAttempt, gets, postLog, lresult>>

\* Mutant: after the delay fetchWithSession gives up.
DelayElapsesGivesUp ==
    /\ UNCHANGED <<serverVars, solverVars>>
    /\ lpc = "delay"
    /\ LoopTop(attempt)
    /\ UNCHANGED <<lclient, pending, challenge, posts, getsSeen, postLog>>

\* fetchWithSession: the 500 ms delay between attempts is over.
DelayElapses ==
    /\ UNCHANGED <<serverVars, solverVars>>
    /\ lpc = "delay"
    /\ IF FetchLoopGuard(fetchAttempt + 1)
       THEN /\ fetchAttempt' = fetchAttempt + 1
            /\ gets' = gets + 1
            /\ lpc' = "get"
            /\ UNCHANGED <<attempt, lresult>>
       ELSE \* return null; attemptLogin: continue
            LoopTop(attempt)
    /\ UNCHANGED <<lclient, pending, challenge, posts, getsSeen, postLog>>

\* attemptLogin: `await client.post(loginUrl, ...)` settles.
PostResponds(answer) ==
    /\ UNCHANGED <<serverVars, solverVars>>
    /\ lpc = "post"
    /\ postLog' = Append(postLog, answer)
    /\ LET errorType == IF IsFailure(answer) THEN Throw
                        ELSE checkResponseForErrors(answer)
       IN  IF errorType = Throw
           THEN PostThrows
           ELSE IF errorType = "credentials"
           THEN /\ lpc' = "done"
                /\ lresult' = InvalidCred
                /\ UNCHANGED <<attempt, fetchAttempt, gets>>
           ELSE IF errorType = "captcha"
           THEN CaptchaVerdict(attempt)
           ELSE /\ lpc' = "done"
                /\ lresult' = Success(answer)
                /\ UNCHANGED <<attempt, fetchAttempt, gets>>
    \* `result` is scoped to the iteration that ends here
    /\ challenge' = Pending
    /\ UNCHANGED <<lclient, pending, posts, getsSeen>>

InitLoginRun ==
    /\ lpc = "init"
    /\ attempt = 0
    /\ fetchAttempt = 0
    /\ pending = Pending
    /\ challenge = Pending
    /\ gets = 0
    /\ posts = 0
    /\ getsSeen = [noCaptcha |-> TRUE, solved |-> TRUE, nullGuess |-> FALSE]
    /\ postLog = << >>
    /\ lresult = Pending

NextLogin ==
    \/ LoginCall
    \/ \E answer \in GetAnswers : GetResponds(answer)
    \/ \E captchaSolution \in Solutions \cup { Null, "" } : SolveReturns(captchaSolution)
    \/ DelayElapses
    \/ \E answer \in PostAnswers : PostResponds(answer)

-----------------------------------------------------------------------------
(* The session registry *)

\* const SESSION_TIMEOUT = 5 * 60 * 1000
SESSION_TIMEOUT == 5 * 60 * 1000
\* the period of the setInterval sweep
SWEEP_INTERVAL == 5 * 60 * 1000

\* The clock advances in ticks of SESSION_TIMEOUT / TicksPerTimeout ms, up to
\* MaxTicks ticks.  Time is counted from one tick before a sweep is due.
TicksPerTimeout == 3
MaxTicks == 5
Tick == SESSION_TIMEOUT \div TicksPerTimeout
\* The requests the server receives.
MaxRequests == 2
\* Every downstream call carries the client's 10 s timeout, far below
\* SESSION_TIMEOUT: the awaited downstream fetches of a handler settle in less
\* than SESSION_TIMEOUT, that is within TicksPerTimeout - 1 ticks.
DownstreamTicks == TicksPerTimeout - 1

Handlers == 1 .. MaxRequests
Usernames == { "u1", "u2" }
Passwords == { "pw1", "pw2" }
\* "" stands for a missing (falsy) field of req.body.
Missing == ""
Endpoints == { "/initialdata", "/semesterdata" }

NoRef == [none |-> TRUE]
Ref(h, kind) == [by |-> h, kind |-> kind]

\* userSessions.has / get / set / delete
Has(map, key) == key \in DOMAIN map
MapSet(map, key, value) ==
    [k \in DOMAIN map \cup {key} |-> IF k = key THEN value ELSE map[k]]
MapDelete(map, key) == [k \in DOMAIN map \ {key} |-> map[k]]

\* Objects no handler and no registry entry refers to are gone.
Reachable(map, hs) ==
    { map[k] : k \in DOMAIN map } \cup { hs[h].session : h \in DOMAIN hs }
Collect(heap, map, hs) ==
    [r \in DOMAIN heap \cap Reachable(map, hs) |-> heap[r]]

\* Mutants: the comparisons with the bound included.
SessionValidInclusive(lastUsed, t) == t - lastUsed <= SESSION_TIMEOUT
SweepExpiredInclusive(lastUsed, t) == t - lastUsed >= SESSION_TIMEOUT

\* getUserClient: Date.now() - session.lastUsed < SESSION_TIMEOUT
SessionValid(lastUsed, t) == t - lastUsed < SESSION_TIMEOUT
\* the sweep: now - session.lastUsed > SESSION_TIMEOUT
SweepExpired(lastUsed, t) == t - lastUsed > SESSION_TIMEOUT

\* getUserClient(username), called by handler h at time t: the registry, the
\* objects and the client returned.
getUserClient(h, username, map, heap, t) ==
    IF Has(map, username) /\ SessionValid(heap[map[username]].lastUsed, t)
    THEN [ map |-> map,
           heap |-> [heap EXCEPT ![map[username]].lastUsed = t],
           client |-> heap[map[username]].client,
           reused |-> TRUE ]
    ELSE LET client == Client(h)
             ref == Ref(h, "new")
         IN  [ map |-> MapSet(map, username, ref),
               heap |-> MapSet(heap, ref, [client |-> client, lastUsed |-> t]),
               client |-> client,
               reused |-> FALSE ]

\* Mutant: the cached tokens are never used.
HasAuthNever(session) == FALSE

\* session?.studentId && session?.csrf
HasAuth(session) ==
    /\ "studentId" \in DOMAIN session /\ session.studentId # Null
    /\ "csrf" \in DOMAIN session /\ session.csrf # Null

-----------------------------------------------------------------------------
(* The request handlers *)

\* The two handlers run the same statements from getUserClient to the await of
\* the downstream fetches; which endpoint a request was POSTed to is resolved
\* where the two first differ (the 400 message, the end of the fetches).
Idle ==
    [pc |-> "idle", username |-> Missing, password |-> Missing,
     client |-> NullClient, session |-> NoRef, studentId |-> Null, csrf |-> Null,
     deadline |-> 0]

\* A handler that has responded: its locals are gone.
Done == [Idle EXCEPT !.pc = "done"]

\* res.status(status).json(body) of handler h, serving a request of username
Response(h, username, status, body) ==
    [to |-> h, username |-> username, status |-> status, body |-> body]

\* What `await attemptLogin(username, password, client)` can resolve to when
\* client is a client: the values attemptLogin returns.
AttemptLoginResults ==
    { InvalidCred, Exhausted }
        \cup { Success(data) : data \in { b \in Bodies : checkResponseForErrors(b) = Null } }

\* extractStudentId(html): the id, Null, or Throw (html.match on a value that
\* is no string).
extractStudentId(html) ==
    IF ~html.str THEN Throw ELSE IF html.sid THEN "studentId" ELSE Null
\* loginResult.data.match(/name="_csrf"\s+value="([^"]+)"/)
extractCsrf(html) ==
    IF ~html.str THEN Throw ELSE IF html.tok THEN "csrf" ELSE Null

\* The missing-field checks of the two endpoints (semesterId is taken to be
\* present).
BadRequest(endpoint) ==
    IF endpoint = "/initialdata"
    THEN [success |-> FALSE, message |-> "Username and password are required"]
    ELSE [success |-> FALSE, message |-> "Username, password, and semesterId are required"]

\* Mutant: the catch block answers without the error field.
InternalErrorBare == [success |-> FALSE, message |-> "Internal server error"]

\* catch (error) of a handler
InternalError == [success |-> FALSE, message |-> "Internal server error",
                  error |-> "TypeError"]
TokenError == [success |-> FALSE, message |-> "Failed to extract required tokens"]

\* The start of the awaited downstream fetches.
StartFetch(rec) ==
    [rec EXCEPT !.pc = "fetch", !.deadline = now + DownstreamTicks * Tick]

\* History: lastUsed of a session of username is set to Date.now().
Refreshed(username) ==
    IF tracking THEN [lastRefresh EXCEPT ![username] = <<now>>] ELSE lastRefresh

\* A request arrives: the handler runs up to its first await.
Arrive(h, endpoint, username, password) ==
    /\ UNCHANGED <<loginVars, solverVars>>
    /\ handler[h].pc = "idle"
    /\ \A g \in Handlers : g < h => handler[g].pc # "idle"
    \* the usernames and passwords are named in the order in which they first
    \* occur
    /\ h = 1 => (username \in { "u1", Missing } /\ password \in { "pw1", Missing })
    /\ IF username = Missing \/ password = Missing
       THEN /\ handler' = [handler EXCEPT ![h] = Done]
            /\ sent' = Response(h, username, 400, BadRequest(endpoint))
            /\ UNCHANGED <<userSessions, objs, lastRefresh>>
       ELSE LET got == getUserClient(h, username, userSessions, objs, now)
                session == got.map[username]
                mine == [handler[h] EXCEPT !.username = username, !.password = password,
                                           !.client = got.client, !.session = session]
                hs == [handler EXCEPT ![h] =
                         IF HasAuth(got.heap[session])
                         THEN StartFetch([mine EXCEPT
                                  !.studentId = got.heap[session].studentId,
                                  !.csrf = got.heap[session].csrf])
                         ELSE [mine EXCEPT !.pc = "login"]]
            IN  /\ handler' = hs
                /\ userSessions' = got.map
                /\ objs' = Collect(got.heap, got.map, hs)
                /\ lastRefresh' = IF got.reused THEN Refreshed(username) ELSE lastRefresh
                /\ sent' = Pending
    /\ UNCHANGED <<now, nextSweep, tracking>>

\* Mutant: the failure response is sent and the registry entry stays.
FailKeepsSession(h, status, body) ==
    /\ handler' = [handler EXCEPT ![h] = Done]
    /\ userSessions' = userSessions
    /\ objs' = Collect(objs, userSessions, handler')
    /\ sent' = Response(h, handler[h].username, status, body)

\* A handler ends with a failure: userSessions.delete(username), then the
\* response.
Fail(h, status, body) ==
    LET username == handler[h].username
        map == MapDelete(userSessions, username)
        hs == [handler EXCEPT ![h] = Done]
    IN  /\ handler' = hs
        /\ userSessions' = map
        /\ objs' = Collect(objs, map, hs)
        /\ sent' = Response(h, username, status, body)

\* Mutants: the check of the tokens passes with one of them, with none.
TokensMissingBoth(studentId, csrf) == Falsy(studentId) /\ Falsy(csrf)
TokensMissingNever(studentId, csrf) == FALSE

\* if (!studentId || !csrf)
TokensMissing(studentId, csrf) == Falsy(studentId) \/ Falsy(csrf)

\* `await attemptLogin(...)` settles with loginResult; the handler runs up to
\* its response or to the await of the downstream fetches.
LoginReturns(h, loginResult) ==
    /\ UNCHANGED <<loginVars, solverVars>>
    /\ handler[h].pc = "login"
    /\ IF ~loginResult.success
       THEN Fail(h, 401, loginResult)
       ELSE LET username == handler[h].username
                studentId == extractStudentId(loginResult.data)
                csrf == extractCsrf(loginResult.data)
            IN  IF studentId = Throw \/ csrf = Throw
                THEN Fail(h, 500, InternalError)
                ELSE IF TokensMissing(studentId, csrf)
                THEN Fail(h, 500, TokenError)
                ELSE LET ref == Ref(h, "auth")
                         map == MapSet(userSessions, username, ref)
                         heap == MapSet(objs, ref,
                                    [client |-> handler[h].client,
                                     studentId |-> studentId, csrf |-> csrf,
                                     lastUsed |-> now])
                         hs == [handler EXCEPT ![h] =
                                  StartFetch([handler[h] EXCEPT
                                      !.session = ref, !.studentId = studentId,
                                      !.csrf = csrf])]
                     IN  /\ handler' = hs
                         /\ userSessions' = map
                         /\ objs' = Collect(heap, map, hs)
                         /\ sent' = Pending
    /\ UNCHANGED <<now, nextSweep, tracking, lastRefresh>>

\* Mutant: isNewSession tells whether the request created its session.
InitialDataTellsReuse(h, session) ==
    [success |-> TRUE, studentId |-> handler[h].studentId, csrf |-> handler[h].csrf,
     isNewSession |-> handler[h].session.by = h]

\* The success responses.
InitialData(h, session) ==
    [success |-> TRUE, studentId |-> handler[h].studentId, csrf |-> handler[h].csrf,
     isNewSession |-> ~("existingSession" \in DOMAIN session)]
SemesterData(h, session) ==
    [success |-> TRUE,
     isNewSession |-> ~("existingSession" \in DOMAIN session)]

\* `await Promise.all([...])` settles (the fetches catch their own errors):
\* session.lastUsed = Date.now(); /initialdata responds, /semesterdata awaits
\* fetchDetailedAttendance.
FetchReturns(h, endpoint) ==
    /\ UNCHANGED <<loginVars, solverVars>>
    /\ handler[h].pc = "fetch"
    /\ LET ref == handler[h].session
           heap == [objs EXCEPT ![ref].lastUsed = now]
           hs == [handler EXCEPT ![h] =
                    IF endpoint = "/initialdata"
                    THEN Done
                    ELSE [handler[h] EXCEPT !.pc = "detail",
                                            !.deadline = now + DownstreamTicks * Tick]]
       IN  /\ handler' = hs
           /\ objs' = Collect(heap, userSessions, hs)
           /\ sent' = IF endpoint = "/initialdata"
                      THEN Response(h, handler[h].username, 200, InitialData(h, heap[ref]))
                      ELSE Pending
           /\ lastRefresh' = Refreshed(handler[h].username)
    /\ UNCHANGED <<now, nextSweep, userSessions, tracking>>

\* /semesterdata: `await fetchDetailedAttendance(...)` settles (it catches its
\* own errors) and the response is sent.
DetailReturns(h) ==
    /\ UNCHANGED <<loginVars, solverVars>>
    /\ handler[h].pc = "detail"
    /\ LET hs == [handler EXCEPT ![h] = Done]
       IN  /\ handler' = hs
           /\ objs' = Collect(objs, userSessions, hs)
           /\ sent' = Response(h, handler[h].username, 200,
                               SemesterData(h, objs[handler[h].session]))
    /\ UNCHANGED <<now, nextSweep, userSessions, tracking, lastRefresh>>

\* The setInterval callback.
Sweep ==
    /\ UNCHANGED <<loginVars, solverVars>>
    /\ now >= nextSweep
    /\ LET map == [k \in { u \in DOMAIN userSessions :
                             ~SweepExpired(objs[userSessions[u]].lastUsed, now) }
                     |-> userSessions[k]]
       IN  /\ userSessions' = map
           /\ objs' = Collect(objs, map, handler)
    /\ nextSweep' = nextSweep + SWEEP_INTERVAL
    /\ sent' = Pending
    /\ UNCHANGED <<now, handler, tracking, lastRefresh>>

\* Time passes: not past a due sweep, and not past the time by which an
\* awaited downstream fetch has settled.
TimePasses ==
    /\ UNCHANGED <<loginVars, solverVars>>
    /\ now + Tick <= MaxTicks * Tick
    /\ now < nextSweep
    /\ \A h \in Handlers :
          handler[h].pc \in { "fetch", "detail" } => now + Tick <= handler[h].deadline
    /\ now' = now + Tick
    /\ sent' = Pending
    /\ UNCHANGED <<nextSweep, userSessions, objs, handler, tracking, lastRefresh>>

\* The server has been running without requests: the registry is empty and the
\* next sweep is due in one tick.
InitServer ==
    /\ now = 0
    /\ nextSweep = Tick
    /\ userSessions = << >>
    /\ objs = << >>
    /\ handler = [h \in Handlers |-> Idle]
    /\ sent = Pending
    /\ lastRefresh = [u \in Usernames |-> << >>]

NextServer ==
    \/ \E h \in Handlers, endpoint \in Endpoints,
          username \in Usernames \cup { Missing }, password \in Passwords \cup { Missing } :
          Arrive(h, endpoint, username, password)
    \/ \E h \in Handlers, loginResult \in AttemptLoginResults : LoginReturns(h, loginResult)
    \/ \E h \in Handlers, endpoint \in Endpoints : FetchReturns(h, endpoint)
    \/ \E h \in Handlers : DetailReturns(h)
    \/ Sweep
    \/ TimePasses

-----------------------------------------------------------------------------
(* The CAPTCHA solver (src/captchasolver.js) *)

\* const HEIGHT = 40; const WIDTH = 200
HEIGHT == 40
WIDTH == 200

\* chars of captcha_parse, one element per character
chars ==
    << "1", "2", "3", "4", "5", "6", "7", "8", "9",
       "A", "B", "C", "D", "E", "F", "G", "H", "I", "J", "K", "L", "M", "N",
       "P", "Q", "R", "S", "T", "U", "V", "W", "X", "Y", "Z" >>
\* Mutant: the linear classifier reads the template matcher's table.
label_txtSwapped == chars

\* label_txt of solveCaptchaFromBase64 / solveCaptchaFromFile
label_txt ==
    << "A", "B", "C", "D", "E", "F", "G", "H", "J", "K", "L", "M", "N",
       "P", "Q", "R", "S", "T", "U", "V", "W", "X", "Y", "Z",
       "2", "3", "4", "5", "6", "7", "8", "9" >>

\* out += label_txt[index] for a 0-based index: outside the table the value is
\* undefined, which += appends as the text "undefined".
Undefined == << "u", "n", "d", "e", "f", "i", "n", "e", "d" >>
Symbol(table, index) ==
    IF index \in 0 .. Len(table) - 1 THEN << table[index + 1] >> ELSE Undefined

\* The images passed to the solver: a raster of w x h pixels with content pix,
\* or bytes that are no image.
Image(w, h, pix) == [w |-> w, h |-> h, pix |-> pix]
Malformed == [malformed |-> TRUE]
Images == { Image(WIDTH, HEIGHT, 1), Image(WIDTH, HEIGHT, 2), Image(100, 20, 1) }
\* base64String: a data URI of bytes, or a string without a comma (a URL)
DataUri(bytes) == [bytes |-> bytes]
NoComma == [nocomma |-> TRUE]
Base64Strings == { DataUri(b) : b \in Images \cup { Malformed } } \cup { NoComma }
NoFile == [nofile |-> TRUE]
NoImage == [noimage |-> TRUE]

\* What the solver returns: `out` or null.
Guess(text) == [guess |-> text]
NoGuess == [null |-> TRUE]

\* Mutant: the image is drawn at its own size, not scaled to the canvas.
drawImageUnscaled(img) ==
    [w |-> WIDTH, h |-> HEIGHT, pix |-> img.pix, scaled |-> FALSE]

\* createCanvas(WIDTH, HEIGHT); ctx.drawImage(img, 0, 0, WIDTH, HEIGHT);
\* ctx.getImageData(0, 0, WIDTH, HEIGHT): the image scaled to the canvas.
drawImage(img) ==
    [w |-> WIDTH, h |-> HEIGHT, pix |-> img.pix,
     scaled |-> (img.w # WIDTH \/ img.h # HEIGHT)]

\* saturation, pre_img, flatten: the bits of cell i of the pixel data (a number
\* stands for the vector of 24 * 22 bits).
CellBits(pixels, i) ==
    pixels.pix * 12 + i + (IF pixels.scaled THEN 6 ELSE 0)

\* bitmaps.weights and bitmaps.biases: the score of class k for a cell, one
\* class per symbol of label_txt.
NumClasses == Len(label_txt)
Score(bits, k) == ((bits + 3) * (k + 5)) % 37

\* mat_mul, mat_add, max_soft, then bls[i].indexOf(Math.max(...bls[i])): the
\* first index of the highest score (max_soft keeps the order of the scores).
ArgMax(bits) ==
    CHOOSE k \in 0 .. NumClasses - 1 :
        /\ \A m \in 0 .. NumClasses - 1 : Score(bits, m) <= Score(bits, k)
        /\ \A m \in 0 .. k - 1 : Score(bits, m) < Score(bits, k)

\* Mutant: the loop over the cells runs once more.
SolveLoopGuardInclusive(i) == i <= 6

\* for (let i = 0; i < 6; i += 1)
SolveLoopGuard(i) == i < 6

\* The loop of the solver from cell i on, `out` so far.
RECURSIVE Classify(_, _, _)
Classify(pixels, i, out) ==
    IF SolveLoopGuard(i)
    THEN Classify(pixels, i + 1, out \o Symbol(label_txt, ArgMax(CellBits(pixels, i))))
    ELSE out

\* The calls of the solver the model follows.
MaxCalls == 2
Calls == 1 .. MaxCalls

IdleCall ==
    [pc |-> "idle", fn |-> "none", arg |-> NoImage, img |-> NoImage,
     error |-> "none", result |-> Pending]

\* A call returns: out, or null from the catch block entered with error.
Return(c, out) == [call[c] EXCEPT !.pc = "done", !.result = Guess(out)]
Catch(c, error) == [call[c] EXCEPT !.pc = "done", !.error = error, !.result = NoGuess]

\* solveCaptchaFromBase64(base64String) is called: up to `await loadImage`.
\* base64String.split(',')[1] is undefined for a string without comma, and
\* Buffer.from(undefined, 'base64') throws.
Base64Call(c, base64String) ==
    /\ UNCHANGED <<loginVars, serverVars, parse>>
    /\ call[c].pc = "idle"
    /\ \A d \in Calls : d < c => call[d].pc # "idle"
    /\ parse.j = 30
    /\ IF base64String = NoComma
       THEN /\ call' = [call EXCEPT ![c] =
                          [Catch(c, "split") EXCEPT !.fn = "base64", !.arg = base64String]]
            /\ UNCHANGED tempFile
       ELSE /\ tempFile' = base64String.bytes
            /\ call' = [call EXCEPT ![c] =
                          [call[c] EXCEPT !.pc = "load", !.fn = "base64",
                                          !.arg = base64String]]

\* loadImage(tempFilePath) reads and decodes the file: it rejects when there is
\* no such file or when the bytes are no image.
LoadReads(c) ==
    /\ UNCHANGED <<loginVars, serverVars, parse, tempFile>>
    /\ call[c].pc = "load"
    /\ call' = [call EXCEPT ![c] =
                  IF tempFile = NoFile \/ tempFile = Malformed
                  THEN Catch(c, "load")
                  ELSE [call[c] EXCEPT !.pc = "loaded", !.img = tempFile]]

\* `await loadImage` settles with the image: the image is drawn and
\* classified, then fs.unlinkSync(tempFilePath), which throws when there is no
\* such file.
LoadSettles(c) ==
    /\ UNCHANGED <<loginVars, serverVars, parse>>
    /\ call[c].pc = "loaded"
    /\ LET out == Classify(drawImage(call[c].img), 0, << >>)
       IN  IF tempFile = NoFile
           THEN /\ call' = [call EXCEPT ![c] = Catch(c, "unlink")]
                /\ UNCHANGED tempFile
           ELSE /\ call' = [call EXCEPT ![c] = Return(c, out)]
                /\ tempFile' = NoFile

\* solveCaptchaFromFile(imagePath) is called, the file holding bytes.
FileCall(c, bytes) ==
    /\ UNCHANGED <<loginVars, serverVars, parse, tempFile>>
    /\ call[c].pc = "idle"
    /\ \A d \in Calls : d < c => call[d].pc # "idle"
    /\ parse.j = 30
    /\ call' = [call EXCEPT ![c] =
                  [call[c] EXCEPT !.pc = "loadFile", !.fn = "file", !.arg = DataUri(bytes)]]

\* solveCaptchaFromFile: `await loadImage(imagePath)` settles.
FileSettles(c) ==
    /\ UNCHANGED <<loginVars, serverVars, parse, tempFile>>
    /\ call[c].pc = "loadFile"
    /\ LET bytes == call[c].arg.bytes
       IN  call' = [call EXCEPT ![c] =
                      IF bytes = Malformed
                      THEN Catch(c, "load")
                      ELSE [Return(c, Classify(drawImage(bytes), 0, << >>))
                               EXCEPT !.img = bytes]]

\* captcha_parse: the scores match / black of the 34 symbols for one band, as
\* whole numbers (in units of 1 / PercUnit), NaN for 0 / 0.
NaN == -1
PercUnit == 2
FlatScores(v) == [i \in 1 .. Len(chars) |-> v]
PeakScores(ps, low) == [i \in 1 .. Len(chars) |-> IF i \in ps THEN PercUnit ELSE low]
NaNScores(p) == [i \in 1 .. Len(chars) |-> IF i = p THEN NaN ELSE 1]
\* the highest score at peak, NaN at a later symbol nan
PeakThenNaNScores(peak, nan) ==
    [i \in 1 .. Len(chars) |-> IF i = peak THEN PercUnit ELSE IF i = nan THEN NaN ELSE 1]
ScoreTables ==
    { FlatScores(0), FlatScores(NaN), PeakScores({ 10 }, 1), PeakScores({ 2, 18 }, 0),
      NaNScores(Len(chars)), PeakThenNaNScores(5, 20) }

\* Mutant: the callback keeps the running best on equal scores.
GreaterOrEqual(a, b) == a # NaN /\ b # NaN /\ a >= b

\* a[0] > b[0] of the reduce callback (false when either is NaN)
Greater(a, b) == a # NaN /\ b # NaN /\ a > b

\* matches.reduce(function (a, b) { return a[0] > b[0] ? a : b; }, a) from
\* element i on.
RECURSIVE Reduce(_, _, _)
Reduce(matches, i, a) ==
    IF i > Len(matches) THEN a
    ELSE IF Greater(a[1], matches[i][1]) THEN Reduce(matches, i + 1, a)
    ELSE Reduce(matches, i + 1, matches[i])

\* The symbol captcha_parse appends for a band with these scores: the reduce
\* starts from [0, 0].
BestMatch(scores) ==
    Reduce([i \in 1 .. Len(chars) |-> << scores[i], chars[i] >>], 1, << 0, "0" >>)[2]

\* Mutant: the loop over the bands stops one band early.
ParseLoopGuardShort(j) == j < 151

\* for (let j = 30; j < 181; j += 30)
ParseLoopGuard(j) == j < 181

\* captcha_parse: one turn of the loop over the bands.  The function is
\* synchronous and nothing of this repository calls it: a run is followed on
\* its own, apart from the calls of the solver.
ParseBand(scores) ==
    /\ UNCHANGED <<loginVars, serverVars, tempFile, call>>
    /\ \A c \in Calls : call[c].pc = "idle"
    /\ ParseLoopGuard(parse.j)
    /\ parse' = [j |-> parse.j + 30, captcha |-> parse.captcha \o << BestMatch(scores) >>]

InitSolver ==
    /\ tempFile = NoFile
    /\ call = [c \in Calls |-> IdleCall]
    /\ parse = [j |-> 30, captcha |-> << >>]

NextSolver ==
    \/ \E c \in Calls, base64String \in Base64Strings : Base64Call(c, base64String)
    \/ \E c \in Calls : LoadReads(c)
    \/ \E c \in Calls : LoadSettles(c)
    \/ \E c \in Calls, bytes \in Images \cup { Malformed } : FileCall(c, bytes)
    \/ \E c \in Calls : FileSettles(c)
    \/ \E scores \in ScoreTables : ParseBand(scores)
-----------------------------------------------------------------------------
(* The specifications *)

InitLogin ==
    /\ InitSolver
    /\ lclient \in { NullClient, Client(1) }
    /\ InitLoginRun
    /\ InitServer
    /\ tracking = FALSE

Init ==
    /\ InitSolver
    /\ lclient = NullClient
    /\ InitLoginRun
    /\ InitServer
    /\ tracking = FALSE

InitTracked ==
    /\ InitSolver
    /\ lclient = NullClient
    /\ InitLoginRun
    /\ InitServer
    /\ tracking = TRUE

SpecLogin == InitLogin /\ [][NextLogin]_vars

\* Every awaited call of a run settles (each network call carries the
\* client's timeout, the solver and the delay return).
SpecLoginFair == InitLogin /\ [][NextLogin]_vars /\ WF_vars(NextLogin)

Spec == Init /\ [][NextServer]_vars

\* The server, with the history of refreshes recorded.
SpecTracked == InitTracked /\ [][NextServer]_vars

\* The CAPTCHA solver on its own.
SpecSolver == Init /\ [][NextSolver]_vars

-----------------------------------------------------------------------------
(* Properties of attemptLogin (SpecLogin) *)

\* What a login POST was answered with.
ContainsCredMarker(answer) ==
    ~IsFailure(answer) /\ answer.str /\ ~answer.empty /\ answer.cred
ContainsCaptchaMarkerOnly(answer) ==
    ~IsFailure(answer) /\ answer.str /\ ~answer.empty /\ answer.captcha /\ ~answer.cred
ContainsNeitherMarker(answer) ==
    ~IsFailure(answer) /\ (answer.empty \/ (answer.str /\ ~answer.cred /\ ~answer.captcha))

\* C2: attemptLogin runs at most 5 CAPTCHA-fetch + submit cycles, so it issues
\* at most 5 login POSTs (at most one per cycle); when no cycle ends in success
\* or in a credential failure it returns "Maximum login attempts reached", and
\* it does so after exactly 5 cycles whatever number of GETs (1 to 10 each)
\* the cycles took.
C2_CycleCap ==
    /\ attempt <= loginMaxAttempts
    /\ posts <= attempt
    /\ posts <= loginMaxAttempts
    /\ attempt <= gets /\ gets <= attempt * fetchMaxAttempts
    /\ (lpc = "done" /\ lclient # NullClient /\ ~lresult.success /\ lresult # InvalidCred)
          => (lresult = Exhausted /\ attempt = loginMaxAttempts)
    /\ (lpc = "done" /\ lresult = Exhausted) => attempt = loginMaxAttempts

\* C2 witness: a run that ended exhausted after 5 POSTs and more than 10 GETs.
C2_Witness ==
    /\ lpc = "done" /\ lresult = Exhausted
    /\ posts = loginMaxAttempts
    /\ gets > fetchMaxAttempts

\* C3: a login POST answered with a body containing "Invalid LoginId/Password"
\* ends the run at once with {success: false, message: "Invalid credentials"}:
\* nothing more is issued, and a remote that always answers so sees exactly one
\* credential submission.
C3_CredentialFailureIsTerminal ==
    /\ (postLog # << >> /\ ContainsCredMarker(postLog[Len(postLog)]))
          => /\ lpc = "done"
             /\ lresult = InvalidCred
             /\ posts = Len(postLog)
             /\ ~ENABLED NextLogin
    /\ (postLog # << >> /\ \A i \in 1 .. Len(postLog) : ContainsCredMarker(postLog[i]))
          => posts = 1

\* C3 witness: the first POST was answered with both markers and the run ended
\* with Invalid credentials after that one submission.
C3_Witness ==
    /\ postLog = << BothBody >>
    /\ lpc = "done" /\ lresult = InvalidCred
    /\ posts = 1

\* C4: with every CAPTCHA fetched and solved, a first POST answered "Invalid
\* Captcha" (without the credential marker) is followed by a second cycle, and
\* a second POST answered with a body that has neither marker ends the run
\* with success carrying that body, after exactly 2 submissions.
C4_RetryThenSuccess ==
    /\ (Len(postLog) = 1 /\ ContainsCaptchaMarkerOnly(postLog[1]) /\ getsSeen.solved)
          => /\ lpc \in { "get", "solve", "post" }
             /\ attempt = 2
             /\ posts \in { 1, 2 }
    /\ (Len(postLog) >= 2 /\ ContainsCaptchaMarkerOnly(postLog[1])
            /\ ContainsNeitherMarker(postLog[2]) /\ getsSeen.solved)
          => /\ lpc = "done"
             /\ lresult = Success(postLog[2])
             /\ Len(postLog) = 2
             /\ posts = 2
             /\ gets = 2

\* C4 witness: Invalid Captcha, then the home page: success after 2 POSTs.
C4_Witness ==
    /\ postLog = << CaptchaBody, HomeBody >>
    /\ getsSeen.solved
    /\ lpc = "done" /\ lresult = Success(HomeBody)
    /\ posts = 2

\* C5 (as stated): when no login page ever shows a detectable CAPTCHA,
\* attemptLogin ends with a failure after exactly 10 page GETs and no POST.
C5_TenFetches ==
    (lpc = "done" /\ gets > 0 /\ getsSeen.noCaptcha)
        => (~lresult.success /\ gets = fetchMaxAttempts /\ posts = 0)

\* C5 (amended): when no login page ever shows a detectable CAPTCHA, each of
\* the 5 cycles of attemptLogin spends its 10 GETs, so the run ends with
\* "Maximum login attempts reached" after exactly 5 * 10 = 50 page GETs and no
\* POST.
C5_FiftyFetches ==
    /\ (getsSeen.noCaptcha /\ lpc \in { "get", "delay" })
          => (gets = (attempt - 1) * fetchMaxAttempts + fetchAttempt /\ posts = 0)
    /\ (lpc = "done" /\ gets > 0 /\ getsSeen.noCaptcha)
          => (lresult = Exhausted /\ gets = loginMaxAttempts * fetchMaxAttempts
                /\ posts = 0)

\* C5 witness: a run in which no page had a CAPTCHA has ended.
C5_Witness ==
    /\ lpc = "done" /\ getsSeen.noCaptcha
    /\ gets = loginMaxAttempts * fetchMaxAttempts
    /\ posts = 0

-----------------------------------------------------------------------------
(* Properties of the registry and the handlers (Spec, SpecTracked) *)

\* The handlers of requests of username that are awaiting attemptLogin.
LoggingIn(username) ==
    { h \in Handlers : handler[h].pc = "login" /\ handler[h].username = username }

\* C1: for requests of one username arriving together with no cached session,
\* at most one login is in progress against the remote at any time: the
\* others wait for it and reuse its session.
C1_SingleLogin ==
    \A username \in Usernames : Cardinality(LoggingIn(username)) <= 1

\* A failure response to a request that carried username and password.
FailureSent ==
    /\ sent # Pending
    /\ ~sent.body.success
    /\ sent.status # 400

\* C6: when a handler has just sent a failure response for a username (failed
\* login, missing tokens, exception), the registry holds no entry for that
\* username, so that the next request for it gets a new client, has no cached
\* authentication and logs in afresh.
C6_FailureInvalidates ==
    FailureSent =>
        /\ ~Has(userSessions, sent.username)
        /\ \A h \in Handlers :
              LET got == getUserClient(h, sent.username, userSessions, objs, now)
              IN  /\ ~got.reused
                  /\ got.client = Client(h)
                  /\ ~HasAuth(got.heap[got.map[sent.username]])

\* C6 witness: a failure response was sent while another request of the same
\* username is still being served.
C6_Witness ==
    /\ FailureSent
    /\ sent.status = 500
    /\ \E h \in Handlers :
          handler[h].username = sent.username /\ handler[h].pc \in { "login", "fetch" }

\* C7: a request arriving for a username gets the cached client, with lastUsed
\* refreshed, exactly when the registry holds an entry for the username whose
\* age now - lastUsed is below SESSION_TIMEOUT; in every other case (no entry,
\* age equal to or above the timeout) the entry is replaced by a fresh session
\* with a new client and no studentId or csrf, so the request has to log in.
C7_GetOrCreate ==
    [][ \A h \in Handlers :
          (handler[h].pc = "idle" /\ handler'[h].pc \in { "login", "fetch" }) =>
             LET username == handler'[h].username
                 cached == /\ username \in DOMAIN userSessions
                           /\ now - objs[userSessions[username]].lastUsed < SESSION_TIMEOUT
                 after == objs'[userSessions'[username]]
             IN  /\ username \in DOMAIN userSessions'
                 /\ after.lastUsed = now
                 /\ after.client = handler'[h].client
                 /\ IF cached
                    THEN /\ userSessions'[username] = userSessions[username]
                         /\ after.client = objs[userSessions[username]].client
                    ELSE /\ userSessions'[username] \notin DOMAIN objs
                         /\ \A r \in DOMAIN objs : objs[r].client # after.client
                         /\ \A g \in Handlers : handler[g].client # after.client
                         /\ DOMAIN after = { "client", "lastUsed" }
                         /\ handler'[h].pc = "login"
      ]_vars

\* C7 witness: a request is served with a session another request created
\* (the cached client and tokens were reused).
C7_Witness ==
    \E h \in Handlers :
        /\ handler[h].pc = "fetch"
        /\ handler[h].session.by # h
        /\ userSessions[handler[h].username] = handler[h].session
        /\ objs[handler[h].session].lastUsed = now

\* now - lastUsed of the session registered for username
Age(username) == now - objs[userSessions[username]].lastUsed

\* C8: a run of the sweep removes from the registry exactly the sessions whose
\* age now - lastUsed exceeds SESSION_TIMEOUT; a session of age at most
\* SESSION_TIMEOUT stays, unchanged.
C8_SweepEvictsExpired ==
    [][ nextSweep' # nextSweep =>
          /\ DOMAIN userSessions' =
                { u \in DOMAIN userSessions : ~(Age(u) > SESSION_TIMEOUT) }
          /\ \A u \in DOMAIN userSessions' :
                /\ userSessions'[u] = userSessions[u]
                /\ objs'[userSessions'[u]] = objs[userSessions[u]]
      ]_vars

\* C8 witness: the sweep is due with one session older than the timeout and
\* one of an age of exactly the timeout in the registry.
C8_Witness ==
    /\ now >= nextSweep
    /\ \E u, v \in DOMAIN userSessions :
          Age(u) > SESSION_TIMEOUT /\ Age(v) = SESSION_TIMEOUT

\* C9: once lastUsed of a username's session was refreshed at time t (a cache
\* hit in getUserClient, the end of a request), no sweep running before
\* t + SESSION_TIMEOUT removes that username's session.
C9_RefreshPostponesEviction ==
    [][ \A u \in Usernames :
          (/\ nextSweep' # nextSweep
           /\ u \in DOMAIN userSessions /\ u \notin DOMAIN userSessions'
           /\ lastRefresh[u] # << >>)
             => now >= lastRefresh[u][1] + SESSION_TIMEOUT
      ]_vars

-----------------------------------------------------------------------------
(* Further properties of attemptLogin and fetchWithSession (SpecLogin) *)

\* The answer to the latest login POST.
LastPost == postLog[Len(postLog)]

C12_Terminates ==
    /\ [](posts <= loginMaxAttempts /\ gets <= loginMaxAttempts * fetchMaxAttempts)
    /\ []((lpc = "done" /\ lclient # NullClient) =>
             (lresult.success \/ lresult \in { InvalidCred, Exhausted }))
    /\ <>(lpc = "done")

\* C12 witness: a run that spent all 50 GETs and 5 POSTs has ended.
C12_Witness ==
    /\ lpc = "done"
    /\ posts = loginMaxAttempts
    /\ gets = loginMaxAttempts * fetchMaxAttempts

\* A page from which fetchWithSession gets a challenge to solve.
Usable(page) ==
    /\ detectCaptchaType(page) = "inbuilt"
    /\ extractCaptchaImage(page) # Null
    /\ extractCsrfToken(page) # Null

\* The current call of fetchWithSession has returned null: no POST follows,
\* attemptLogin starts its next cycle or ends.
ReturnsNull ==
    /\ posts' = posts
    /\ \/ lpc' = "get" /\ attempt' = attempt + 1 /\ fetchAttempt' = 1 /\ gets' = gets + 1
       \/ lpc' = "done" /\ lresult' = Exhausted /\ attempt = loginMaxAttempts
                        /\ gets' = gets

\* C19: within one call of fetchWithSession a GET answered with a page without
\* usable challenge (no CAPTCHA detected, image or token missing) is followed
\* by the 500 ms delay and then by the next GET of the same call, the call
\* returning null after the 10th; the call issues at most 10 GETs and returns
\* a result (so that a POST is issued) only with token, image and guess all
\* present.
C19_RetryWithinCall ==
    /\ fetchAttempt <= fetchMaxAttempts
    /\ lpc = "get" =>
          \A page \in Pages :
              IF Usable(page)
              THEN ~ENABLED (GetResponds(page) /\ lpc' # "solve")
              ELSE ~ENABLED (GetResponds(page) /\ lpc' # "delay")
    /\ lpc = "delay" =>
          IF fetchAttempt < fetchMaxAttempts
          THEN ~ENABLED (NextLogin /\ ~(/\ lpc' = "get"
                                        /\ fetchAttempt' = fetchAttempt + 1
                                        /\ gets' = gets + 1
                                        /\ attempt' = attempt
                                        /\ posts' = posts))
          ELSE ~ENABLED (NextLogin /\ ~ReturnsNull)
    /\ lpc = "solve" => (pending.csrf # Null /\ pending.image # Null)
    /\ lpc = "post" => (challenge.csrf # Null /\ challenge.captchaSolution # Null)

\* C19 witness: the 10th GET of a call had no usable challenge either.
C19_Witness ==
    /\ lpc = "delay"
    /\ fetchAttempt = fetchMaxAttempts
    /\ attempt = 2

NextGetOrExhausted ==
    /\ posts' = posts
    /\ \/ lpc' = "get" /\ gets' = gets + 1
       \/ /\ lpc' = "done" /\ lresult' = Exhausted /\ gets' = gets
          /\ attempt = loginMaxAttempts /\ fetchAttempt = fetchMaxAttempts

\* C21: when the solver returns null (or an empty guess) fetchWithSession does
\* what it does for a page without usable challenge: no POST is issued, it
\* waits the delay and the next step is a new GET of the login page (or, with
\* the 10 GETs of the 5th cycle spent, the end of the run); a login POST is
\* only ever issued with a token and a guess that are neither null nor empty.
C21_DecodeFailureRefetches ==
    /\ lpc = "post" =>
          (~Falsy(challenge.csrf) /\ ~Falsy(challenge.captchaSolution))
    /\ lpc = "solve" =>
          \A s \in { Null, "" } :
              /\ ENABLED SolveReturns(s)
              /\ ~ENABLED (SolveReturns(s) /\ ~(/\ lpc' = "delay"
                                                /\ getsSeen'.nullGuess
                                                /\ challenge' = Pending
                                                /\ posts' = posts /\ gets' = gets))
    /\ getsSeen.nullGuess =>
          /\ lpc \in { "delay", "get", "done" }
          /\ lpc = "delay" => ~ENABLED (NextLogin /\ ~NextGetOrExhausted)
          /\ lpc = "done" => lresult = Exhausted

\* C21 witness: the solver returned no guess for the challenge of the first
\* page, and the second GET of the call is under way.
C21_Witness ==
    /\ getsSeen.nullGuess
    /\ lpc = "get"
    /\ gets = 2 /\ fetchAttempt = 2 /\ posts = 0

\* A login POST is issued by the step taken / is answered by the step taken.
PostIssued == posts' = posts + 1
PostAnswered == Len(postLog') = Len(postLog) + 1

\* C22: within a run of attemptLogin every login POST carries the token and
\* the guess of the latest login-page GET, and that GET was issued after the
\* answer to the previous POST: when a POST is answered the challenge it used
\* is dropped and the run either ends or goes on with a new GET; a POST is
\* issued only from the challenge of the latest page, so no challenge is
\* submitted twice.
C22_FreshChallengePerPost ==
    /\ [](challenge # Pending <=> lpc = "post")
    /\ [](lpc = "post" => challenge.page = gets)
    /\ [][ PostIssued =>
              /\ lpc = "solve" /\ challenge = Pending
              /\ pending.page = gets
              /\ challenge'.page = gets
              /\ challenge'.csrf = pending.csrf
              /\ gets > Len(postLog)
       ]_vars
    /\ [][ PostAnswered =>
              /\ lpc = "post"
              /\ challenge' = Pending /\ pending' = Pending
              /\ posts' = posts
              /\ \/ lpc' = "get" /\ gets' = gets + 1
                 \/ lpc' = "done" /\ gets' = gets
       ]_vars

\* C22 witness: the second POST of a run is under way, with the challenge of
\* the page fetched after the first POST was answered Invalid Captcha.
C22_Witness ==
    /\ lpc = "post"
    /\ postLog = << CaptchaBody >>
    /\ posts = 2
    /\ challenge.page = 2 /\ gets = 2

\* The login POSTs answered so far all failed in transport.
EveryPostFailed ==
    /\ postLog # << >>
    /\ \A i \in 1 .. Len(postLog) : IsFailure(postLog[i])

\* C23 (as stated): a login POST that fails in transport is followed by a
\* backoff delay before the next cycle; when every POST fails the run ends
\* with Maximum login attempts reached after exactly 5 POSTs.
C23_PostFailureBacksOff ==
    /\ (lpc = "post" /\ attempt < loginMaxAttempts) =>
          ~ENABLED (PostResponds([failed |-> TRUE]) /\ lpc' # "delay")
    /\ (lpc = "done" /\ EveryPostFailed /\ getsSeen.solved) =>
          (lresult = Exhausted /\ posts = loginMaxAttempts)

\* C23 (amended): a login POST that fails in transport is caught and the loop
\* of attemptLogin goes on at once, without any delay: before the 5th cycle
\* with the first GET of a new fetchWithSession call, on the 5th cycle with
\* Maximum login attempts reached.  When every POST fails the run ends with
\* Maximum login attempts reached, after exactly 5 POSTs when every cycle got
\* a challenge, after fewer otherwise.
C23_PostFailureRetriesAtOnce ==
    /\ lpc = "post" =>
          /\ ENABLED PostResponds([failed |-> TRUE])
          /\ ~ENABLED (PostResponds([failed |-> TRUE]) /\
                ~(/\ posts' = posts
                  /\ challenge' = Pending
                  /\ IF attempt < loginMaxAttempts
                     THEN /\ lpc' = "get" /\ attempt' = attempt + 1
                          /\ fetchAttempt' = 1 /\ gets' = gets + 1
                     ELSE /\ lpc' = "done" /\ lresult' = Exhausted /\ gets' = gets))
    /\ (lpc = "done" /\ EveryPostFailed) =>
          /\ lresult = Exhausted
          /\ attempt = loginMaxAttempts
          /\ posts <= loginMaxAttempts
          /\ getsSeen.solved => (posts = loginMaxAttempts /\ gets = loginMaxAttempts)

\* C23 witness: five cycles of one GET and one failed POST each have ended
\* the run.
C23_Witness ==
    /\ lpc = "done" /\ lresult = Exhausted
    /\ EveryPostFailed
    /\ Len(postLog) = loginMaxAttempts
    /\ gets = loginMaxAttempts

\* C29: attemptLogin never rejects: every answer of the remote (a page, a
\* body, a GET or POST that throws) and of the solver is taken by the run,
\* and the run resolves to {success: true, data}, Invalid credentials or
\* Maximum login attempts reached when a client was passed, and to No client
\* provided, without any GET or POST, when none was.
C29_NeverRejects ==
    /\ lpc # "done" <=> lresult = Pending
    /\ lpc = "done" =>
          IF lclient = NullClient
          THEN lresult = NoClient /\ gets = 0 /\ posts = 0
          ELSE lresult \in { InvalidCred, Exhausted }
                              \cup { Success(data) : data \in Bodies }
    /\ lpc = "get" => \A answer \in GetAnswers : ENABLED GetResponds(answer)
    /\ lpc = "solve" =>
          \A answer \in Solutions \cup { Null, "" } : ENABLED SolveReturns(answer)
    /\ lpc = "post" => \A answer \in PostAnswers : ENABLED PostResponds(answer)

\* C29 witness: a run in which a GET threw, a POST threw and a POST was
\* answered with a body that is no string has resolved with success.
C29_Witness ==
    /\ lpc = "done" /\ lresult.success
    /\ Len(postLog) = 3
    /\ IsFailure(postLog[1]) /\ postLog[2] = ObjectBody
    /\ gets = 4 /\ ~getsSeen.solved

-----------------------------------------------------------------------------
(* Further properties of the registry and the handlers (Spec) *)

\* The handlers suspended on network I/O.
InFlight == { h \in Handlers : handler[h].pc \in { "login", "fetch", "detail" } }

\* C13: no two active sessions share a principal: the registry holds at most
\* one session per username, and every request in flight for a username works
\* on the client (cookie jar) of the session registered for that username at
\* that moment.
C13_OneClientPerPrincipal ==
    \A h \in InFlight :
        LET username == handler[h].username
        IN  Has(userSessions, username) =>
                objs[userSessions[username]].client = handler[h].client

\* C14: when a handler refreshes lastUsed at the end of its downstream
\* fetches, the session object it writes to is the one the registry holds for
\* the username at that moment: it was not evicted by the sweep, removed or
\* replaced while the handler was suspended.
C14_RefreshHitsRegistered ==
    [][ \A h \in Handlers :
          (handler[h].pc = "fetch" /\ handler'[h].pc # "fetch") =>
              /\ Has(userSessions, handler[h].username)
              /\ userSessions[handler[h].username] = handler[h].session
      ]_vars

\* The session registered for username, and whether it is a cached
\* authenticated session a request arriving now is served from.
Registered(username) == objs[userSessions[username]]
Cached(username) ==
    /\ Has(userSessions, username)
    /\ now - Registered(username).lastUsed < SESSION_TIMEOUT
    /\ { "studentId", "csrf" } \subseteq DOMAIN Registered(username)
    /\ ~Falsy(Registered(username).studentId)
    /\ ~Falsy(Registered(username).csrf)
\* Login results from which a token cannot be extracted.
WithoutTokens ==
    { r \in AttemptLoginResults :
        r.success /\ (extractStudentId(r.data) \in { Null, Throw }
                        \/ extractCsrf(r.data) \in { Null, Throw }) }

\* C24: the downstream fetches of a request run only with a studentId and a
\* csrf that are present and not empty; a request starts them on arrival
\* only with the tokens of the cached session, and after its login only once
\* the registry holds, for the username, the client the login used together
\* with the studentId and csrf taken from the login response; when one of the
\* tokens cannot be taken from the response the request ends without any
\* downstream fetch.
C24_FetchNeedsTokens ==
    /\ [](\A h \in Handlers :
            handler[h].pc \in { "fetch", "detail" } =>
                (~Falsy(handler[h].studentId) /\ ~Falsy(handler[h].csrf)))
    /\ [][ \A h \in Handlers :
              (handler[h].pc = "idle" /\ handler'[h].pc = "fetch") =>
                  /\ Cached(handler'[h].username)
                  /\ handler'[h].studentId = Registered(handler'[h].username).studentId
                  /\ handler'[h].csrf = Registered(handler'[h].username).csrf
                  /\ handler'[h].client = Registered(handler'[h].username).client
       ]_vars
    /\ [][ \A h \in Handlers :
              (handler[h].pc = "login" /\ handler'[h].pc = "fetch") =>
                  LET username == handler[h].username
                      entry == objs'[userSessions'[username]]
                  IN  /\ Has(userSessions', username)
                      /\ entry.client = handler[h].client
                      /\ entry.studentId = handler'[h].studentId
                      /\ entry.csrf = handler'[h].csrf
                      /\ handler'[h].client = handler[h].client
       ]_vars
    /\ [](\A h \in Handlers :
            handler[h].pc = "login" =>
                \A r \in WithoutTokens :
                    /\ ENABLED LoginReturns(h, r)
                    /\ ~ENABLED (LoginReturns(h, r) /\ handler'[h].pc # "done"))

\* C24 witness: a request runs its downstream fetches after its own login,
\* with the session it stored registered.
C24_Witness ==
    \E h \in Handlers :
        /\ handler[h].pc = "fetch"
        /\ handler[h].session = Ref(h, "auth")
        /\ userSessions[handler[h].username] = handler[h].session
        /\ objs[handler[h].session].studentId = handler[h].studentId

\* C26: when the registry holds a session for the username that has not
\* expired and has studentId and csrf, a request for that username is served
\* from it whatever its password: it starts no login, and the state it leaves
\* (client, tokens, registry), from which its response is built, is the same
\* for every password but for the handler's own copy of the password.
C26_PasswordIgnoredWhenCached ==
    \A username \in Usernames :
        Cached(username) =>
            \A h \in Handlers, endpoint \in Endpoints, password \in Passwords :
              /\ (handler[h].pc = "idle" /\ handler[1].pc # "idle"
                     /\ \A g \in Handlers : g < h => handler[g].pc # "idle")
                    => ENABLED Arrive(h, endpoint, username, password)
              /\ ~ENABLED (Arrive(h, endpoint, username, password) /\
                    ~(/\ handler'[h] =
                            StartFetch([Idle EXCEPT
                                !.username = username, !.password = password,
                                !.client = Registered(username).client,
                                !.session = userSessions[username],
                                !.studentId = Registered(username).studentId,
                                !.csrf = Registered(username).csrf])
                      /\ userSessions' = userSessions
                      /\ objs' = [objs EXCEPT ![userSessions[username]].lastUsed = now]
                      /\ sent' = Pending))

\* C26 witness: a request with the second password is served from the
\* session that the first request, which came with the first password, stored.
C26_Witness ==
    /\ handler[1].pc = "done"
    /\ handler[2].pc = "fetch"
    /\ handler[2].password = "pw2"
    /\ handler[2].session = Ref(1, "auth")

\* C27: a request that ends with a failure response removes from the
\* registry only a session without studentId and csrf: an authenticated
\* session registered for its username stays.
C27_FailureSparesAuthenticated ==
    [][ \A username \in Usernames :
          (/\ sent' # Pending /\ ~sent'.body.success /\ sent'.username = username
           /\ Has(userSessions, username) /\ HasAuth(Registered(username)))
             => /\ Has(userSessions', username)
                /\ userSessions'[username] = userSessions[username]
      ]_vars

\* The fields of a registry entry.
PendingFields == { "client", "lastUsed" }
AuthFields == { "client", "lastUsed", "studentId", "csrf" }

\* C28: every registry entry has a client and a lastUsed timestamp, and has
\* either no studentId and no csrf or both of them, neither null nor empty.
C28_EntryShape ==
    \A username \in DOMAIN userSessions :
        /\ userSessions[username] \in DOMAIN objs
        /\ Registered(username).client # NullClient
        /\ Registered(username).lastUsed \in 0 .. now
        /\ \/ DOMAIN Registered(username) = PendingFields
           \/ /\ DOMAIN Registered(username) = AuthFields
              /\ ~Falsy(Registered(username).studentId)
              /\ ~Falsy(Registered(username).csrf)

\* C28 witness: the registry holds an authenticated session and a session
\* whose login is pending.
C28_Witness ==
    \E u, v \in DOMAIN userSessions :
        /\ DOMAIN Registered(u) = AuthFields
        /\ DOMAIN Registered(v) = PendingFields

\* C30: every success response of /initialdata and /semesterdata carries
\* isNewSession = true, that of a request served from a cached session
\* included.
C30_AlwaysNewSession ==
    /\ (sent # Pending /\ sent.body.success) => sent.body.isNewSession
    /\ \A h \in Handlers :
          /\ handler[h].pc = "fetch" =>
                ~ENABLED (FetchReturns(h, "/initialdata") /\ ~sent'.body.isNewSession)
          /\ handler[h].pc = "detail" =>
                ~ENABLED (DetailReturns(h) /\ ~sent'.body.isNewSession)

\* C30 witness: the second request, which arrived after the first was
\* answered and did not replace its session, got a success response.
C30_Witness ==
    /\ sent # Pending /\ sent.status = 200 /\ sent.to = 2
    /\ sent.body.isNewSession
    /\ handler[1].pc = "done"
    /\ Has(userSessions, sent.username)
    /\ userSessions[sent.username] = Ref(1, "auth")
    /\ \A r \in DOMAIN objs : r.by = 1

-----------------------------------------------------------------------------
(* Properties of the CAPTCHA solver (SpecSolver) *)

\* The symbols of a table.
Range(table) == { table[i] : i \in 1 .. Len(table) }
\* The calls that have returned, and those that returned a guess.
Returned == { c \in Calls : call[c].pc = "done" }
Guessed == { c \in Returned : call[c].result # NoGuess }

WrongResolution(c) ==
    call[c].img # NoImage /\ (call[c].img.w # WIDTH \/ call[c].img.h # HEIGHT)

C17_Deterministic ==
    \A c \in Returned :
        (call[c].fn = "base64" /\ call[c].arg # NoComma) =>
            call[c].result =
               IF call[c].arg.bytes = Malformed THEN NoGuess
               ELSE Guess(Classify(drawImage(call[c].arg.bytes), 0, << >>))

\* The letters and digits of the tables.
Letters ==
    { "A", "B", "C", "D", "E", "F", "G", "H", "I", "J", "K", "L", "M", "N", "O",
      "P", "Q", "R", "S", "T", "U", "V", "W", "X", "Y", "Z" }
Digits == { "0", "1", "2", "3", "4", "5", "6", "7", "8", "9" }
\* The two tables as the claim describes them, but for the size of label_txt.
TablesAsDescribed ==
    /\ Len(chars) = 34
    /\ Range(chars) = (Digits \ { "0" }) \cup (Letters \ { "O" })
    /\ Range(label_txt) = (Letters \ { "I", "O" }) \cup (Digits \ { "0", "1" })
    /\ \A i, k \in 1 .. Len(label_txt) :
          (label_txt[i] \in Letters /\ label_txt[k] \in Digits) => i < k
    /\ chars # label_txt
\* Every arg-max index computed for the cells of a decoded image is an index
\* of label_txt.
ArgMaxInTable ==
    \A c \in Calls :
        call[c].img # NoImage =>
            \A i \in 0 .. 5 :
                LET index == ArgMax(CellBits(drawImage(call[c].img), i))
                IN  /\ index \in 0 .. Len(label_txt) - 1
                    /\ Symbol(label_txt, index) = << label_txt[index + 1] >>

\* The symbol appended for every arg-max index computed for the cells of a
\* decoded image: label_txt[index] for an index below the length of label_txt,
\* undefined for any other.
ArgMaxIndexesTable ==
    \A c \in Calls :
        call[c].img # NoImage =>
            \A i \in 0 .. 5 :
                LET index == ArgMax(CellBits(drawImage(call[c].img), i))
                IN  Symbol(label_txt, index) =
                       IF index < Len(label_txt) THEN << label_txt[index + 1] >>
                       ELSE Undefined

AfterLastNaN(scores) ==
    { i \in 1 .. Len(chars) : \A k \in i .. Len(chars) : scores[k] # NaN }
\* The highest score at the positions ps, and the positions among ps that
\* have it.
Highest(scores, ps) == { i \in ps : \A k \in ps : scores[k] <= scores[i] }
First(ps) == CHOOSE i \in ps : \A k \in ps : i <= k
Last(ps) == CHOOSE i \in ps : \A k \in ps : k <= i
\* captcha_parse is at the top of its loop, with a band left.
AtBand == ParseLoopGuard(parse.j) /\ \A c \in Calls : call[c].pc = "idle"
\* The symbol the step taken appends to `captcha`.
Appended == parse'.captcha[Len(parse.captcha) + 1]

\* C25 (as stated): for a band whose scores are all numbers, captcha_parse
\* appends a symbol with the highest score, and among several such symbols the
\* first of the table.
C25_FirstHighestWins ==
    AtBand =>
        \A scores \in { t \in ScoreTables : AfterLastNaN(t) = 1 .. Len(chars) } :
            ~ENABLED (ParseBand(scores) /\
                        Appended # chars[First(Highest(scores, 1 .. Len(chars)))])

\* C25 (amended): for each band captcha_parse appends one symbol; when the
\* scores are all numbers it is a symbol with the highest score, and among
\* several such symbols the last of the table; a NaN score (a template
\* without black pixel) replaces the running best and is replaced by the next
\* symbol, so that the choice is made among the symbols after the last NaN
\* score, and is the last symbol of the table when its score is NaN.
C25_LastHighestWins ==
    AtBand =>
        \A scores \in ScoreTables :
            /\ ENABLED ParseBand(scores)
            /\ ~ENABLED (ParseBand(scores) /\
                  Appended # IF AfterLastNaN(scores) = { } THEN chars[Len(chars)]
                             ELSE chars[Last(Highest(scores, AfterLastNaN(scores)))])

\* C25 witness: a band in which the 2nd and the 18th symbol shared the highest
\* score got the 18th symbol, I.
C25_Witness ==
    /\ Len(parse.captcha) = 2
    /\ parse.captcha[2] = chars[18]
    /\ BestMatch(PeakScores({ 2, 18 }, 0)) = chars[18]

====
